---- MODULE Spec2Model ----
(***************************************************************************)
(* Purchase-and-receipt subsystem of the FightPass backend (server.js).    *)
(*                                                                         *)
(* The server is one Node.js process with a synchronous SQLite driver, so  *)
(* a handler runs without interruption from one `await` to the next.  Each *)
(* action below is one such uninterrupted run: the code between two        *)
(* consecutive awaits of one request handler.                              *)
(***************************************************************************)
EXTENDS Integers, Sequences, FiniteSets, TLC

VARIABLES
  users,            \* table users:            id -> [token_balance]
  purchases,        \* table purchases:        set of rows (id is the primary key)
  token_purchases,  \* table token_purchases:  set of rows (id is the primary key)
  orders,           \* table orders:           set of rows (id is the primary key)
  payments,         \* createPayment calls received by the payment processor
  emails,           \* emails.send calls received by the mail service
  req,              \* the request handlers in flight, each at an await
  response,         \* what the last step sent to a client, NoResponse if nothing
  started,          \* purchase requests that have passed validation so far
  collide,          \* whether the random generators can repeat a value in use
  now,              \* the wall clock
  engine,           \* the signature engine called on its own: input and output
  tampered          \* the rows altered directly in the data store, and the field

vars == <<users, purchases, token_purchases, orders, payments, emails, req,
          response, started, collide, now, engine, tampered>>

-----------------------------------------------------------------------------
(* Bounds of the model *)

\* most purchase requests that pass validation in one behaviour
MaxPurchases == 2

\* request handlers that can be in flight at the same time
Reqs == {1, 2}

\* the users rows, and the user ids a request body can carry: "u_none" is in
\* no users row
UserIds == {"u1", "u2"}
ReqUserIds == UserIds \cup {"u_none"}

\* balances the first user can hold when the server starts
InitBalances == {10, 50, 500}

\* INSERT INTO users (..., token_balance) VALUES (..., 0): a user after sign-up
SignupBalance == 0

\* readings of the wall clock: seconds and milliseconds since the first one
Instants == { [s |-> 0, ms |-> 0], [s |-> 1, ms |-> 500] }

-----------------------------------------------------------------------------
(* Time *)

Earlier(a, b) == a.s < b.s \/ (a.s = b.s /\ a.ms < b.ms)

\* 30 * 24 * 60 * 60 * 1000 milliseconds, kept in seconds
ValiditySeconds == 30 * 24 * 60 * 60

\* new Date(t).toISOString(): "YYYY-MM-DDTHH:MM:SS.mmmZ"
toISOString(t) == [fmt |-> "iso", s |-> t.s, ms |-> t.ms]

\* SQLite CURRENT_TIMESTAMP: "YYYY-MM-DD HH:MM:SS", whole seconds
CURRENT_TIMESTAMP(t) == [fmt |-> "sql", s |-> t.s, ms |-> 0]

\* new Date(Date.now() + 30 * 24 * 60 * 60 * 1000).toISOString()
expiresAtOf(t) == toISOString([s |-> t.s + ValiditySeconds, ms |-> t.ms])

-----------------------------------------------------------------------------
(* Catalog and package table *)

EventIds == {"evt_live_championship", "evt_upcoming_1"}

\* event ids the requests carry; "evt_none" is in no events row
ReqEventIds == {"evt_live_championship", "evt_none"}

events ==
  [e \in EventIds |->
     IF e = "evt_live_championship"
       THEN [price |-> 50, youtube_url |-> "https://www.youtube.com/watch?v=dQw4w9WgXcQ"]
       ELSE [price |-> 25, youtube_url |-> "null"]]

PackageIds == {"100", "250", "500", "1000"}

\* package ids the requests carry; "9999" is no property of the package
\* table, "constructor" is one it inherits
ReqPackageIds == {"250", "9999", "constructor"}

packages ==
  [p \in PackageIds |->
     CASE p = "100"  -> [tokens |-> 100,  bonus |-> 0,   price |-> 499]
       [] p = "250"  -> [tokens |-> 250,  bonus |-> 50,  price |-> 999]
       [] p = "500"  -> [tokens |-> 500,  bonus |-> 150, price |-> 1999]
       [] p = "1000" -> [tokens |-> 1000, bonus |-> 500, price |-> 3999]]

\* properties every object literal inherits from Object.prototype, which
\* packages[package_id] finds as it finds the four own properties
ObjectPrototype == {"constructor", "__proto__", "toString"}

\* packages[package_id] is not undefined: `!pkg` is false
HasProperty(package_id) == package_id \in DOMAIN packages \cup ObjectPrototype

\* BigInt(pkg.price) throws a TypeError: pkg.price is undefined when pkg is
\* not one of the four package objects
BigIntThrows(package_id) == package_id \notin DOMAIN packages

\* pkg.price / 100: the price in currency units, a double
Dollars(cents) == [num |-> cents, den |-> 100]

-----------------------------------------------------------------------------
(* Identifier generator *)

Ids(rows) == {row.id : row \in rows}

Receipts == {row.receipt_number : row \in purchases \cup token_purchases}

AccessTokens == {row.access_token : row \in purchases}

IdempotencyKeys == {payments[i].idempotencyKey : i \in DOMAIN payments}

\* the values are opaque, so one value that is not in use stands for every
\* such value: the values in use are numbered 1..n, the next one is n + 1
Unused(prefix, used) == prefix \o ToString(Cardinality(used) + 1)

\* generateId(): 'id_' + random digits + Date.now(); a value not in use or,
\* where the random digits and the millisecond repeat, one that is in use
generateId(used) ==
  {Unused("id_", used)} \cup (IF collide THEN used ELSE {})

\* generateReceiptNumber(): 'RCP-' + Date.now() + random digits
generateReceiptNumber ==
  {Unused("RCP-", Receipts)} \cup (IF collide THEN Receipts ELSE {})

\* generateAccessToken(): 'tok_' + random digits
generateAccessToken ==
  {Unused("tok_", AccessTokens)} \cup (IF collide THEN AccessTokens ELSE {})

\* the statement throws when the primary key is already in the table
InsertFails(rows, id) == id \in Ids(rows)

\* payment.id of the n-th createPayment call
PaymentIdOf(n) == "pay_" \o ToString(n)

NULL == "null"

-----------------------------------------------------------------------------
(* Signature engine *)

Secret == "your-secret-key"

\* the signature computed over the fact without its last field
generateDigitalSignature_WithoutTimestamp(data) ==
  [alg |-> "hmac-sha256", key |-> Secret, msg |-> SubSeq(data, 1, Len(data) - 1)]

\* HMAC-SHA256 over JSON.stringify(data): the key and the serialized fields,
\* in order; two signatures are equal exactly when key and serialization are
generateDigitalSignature(data) ==
  [alg |-> "hmac-sha256", key |-> Secret, msg |-> data]

\* a digital_signature column that holds no value
NullSignature == [alg |-> "null"]

\* a digital_signature column that holds a text that is no digest: its leading
\* hex digits decode to `length` bytes
Malformed(length) == [alg |-> "text", length |-> length]

\* Buffer.from(signature, 'hex'): the bytes the leading hex digits decode to,
\* 32 of them for a digest
BufferFromHex(signature) ==
  IF signature.alg = "hmac-sha256"
    THEN [length |-> 32, bytes |-> signature]
    ELSE [length |-> signature.length, bytes |-> signature]

\* Buffer.from(null, 'hex') throws a TypeError, timingSafeEqual throws a
\* RangeError when its two buffers differ in byte length
verifyThrows(data, signature) ==
  \/ signature.alg = "null"
  \/ BufferFromHex(signature).length #
       BufferFromHex(generateDigitalSignature(data)).length

\* timingSafeEqual of the stored and the recomputed digest
verifyDigitalSignature(data, signature) ==
  BufferFromHex(signature) = BufferFromHex(generateDigitalSignature(data))

\* the engine has not been called on its own
NoCall == [stage |-> "none"]

\* the fact tuple of an event purchase, as JSON.stringify serializes it
EventSignatureData(receipt, id, user_id, event_id, token, spent, expires, ts) ==
  << <<"receipt_number", receipt>>, <<"purchase_id", id>>,
     <<"user_id", user_id>>, <<"event_id", event_id>>,
     <<"access_token", token>>, <<"tokens_spent", spent>>,
     <<"expires_at", expires>>, <<"timestamp", ts>> >>

\* the fact tuple of a token purchase, as JSON.stringify serializes it
TokenSignatureData(receipt, id, user_id, package_id, tokens, amount, pay, ts) ==
  << <<"receipt_number", receipt>>, <<"purchase_id", id>>,
     <<"user_id", user_id>>, <<"package_id", package_id>>,
     <<"tokens", tokens>>, <<"amount", amount>>,
     <<"square_payment_id", pay>>, <<"timestamp", ts>> >>

-----------------------------------------------------------------------------
(* Token ledger *)

\* the balance check left out
InsufficientTokens_NoCheck(balance, price) == FALSE

\* the balance check with <= for <
InsufficientTokens_OrEqual(balance, price) == balance <= price

\* if (user.token_balance < event.price)
InsufficientTokens(balance, price) == balance < price

\* the debit with the sign of the credit
Debit_AsCredit(us, user_id, amount) ==
  [us EXCEPT ![user_id].token_balance = @ + amount]

\* UPDATE users SET token_balance = token_balance - ? WHERE id = ?
Debit(us, user_id, amount) ==
  [us EXCEPT ![user_id].token_balance = @ - amount]

\* the credit written from a balance read before the debit of an event
\* purchase of the same user that is still in flight
Credit_LostUpdate(us, user_id, amount) ==
  [us EXCEPT ![user_id].token_balance =
     IF \E r \in DOMAIN req : /\ req[r].pc = "awaitEmail"
                              /\ req[r].kind = "event"
                              /\ req[r].user_id = user_id
       THEN @ + events[req[CHOOSE r \in DOMAIN req :
                             /\ req[r].pc = "awaitEmail"
                             /\ req[r].kind = "event"
                             /\ req[r].user_id = user_id].item].price + amount
     ELSE @ + amount]

\* the credit writing the amount over the balance
Credit_Overwrite(us, user_id, amount) ==
  [us EXCEPT ![user_id].token_balance = amount]

\* UPDATE users SET token_balance = token_balance + ? WHERE id = ?
Credit(us, user_id, amount) ==
  [us EXCEPT ![user_id].token_balance = @ + amount]

-----------------------------------------------------------------------------
(* Responses *)

NoResponse == [op |-> "none", status |-> 0]

\* a response of POST /api/v1/purchases/events
EventResponse(user_id, event_id, body) ==
  [op |-> "purchaseEvent", user_id |-> user_id, item |-> event_id,
   status |-> body.status, body |-> body]

\* a response of POST /api/v1/tokens/purchase
TokenResponse(user_id, package_id, body) ==
  [op |-> "purchaseTokens", user_id |-> user_id, item |-> package_id,
   status |-> body.status, body |-> body]

EventNotFound == [status |-> 404, message |-> "Event not found"]

UserNotFound == [status |-> 404, message |-> "User not found"]

InsufficientBalance(required, current) ==
  [status |-> 400, message |-> "Insufficient tokens", required |-> required,
   current |-> current, shortage |-> required - current]

ServerError == [status |-> 500, message |-> "Server error"]

InvalidPackage == [status |-> 400, message |-> "Invalid package"]

\* squareError.errors.map(e => e.detail || e.code).join(', ')
PaymentDeclined(details) ==
  [status |-> 400, message |-> "Payment failed", details |-> details,
   code |-> "SQUARE_PAYMENT_ERROR"]

PaymentProcessorUnavailable ==
  [status |-> 500, message |-> "Payment processing failed. Please try again.",
   code |-> "PAYMENT_ERROR"]

\* l: the handler's local variables; sent: whether the receipt email went out
EventPurchased(l, sent) ==
  [status |-> 200, success |-> TRUE, access_token |-> l.accessToken,
   expires_at |-> l.expiresAt, receipt_number |-> l.receiptNumber,
   digital_signature |-> l.digitalSignature,
   message |-> "Event purchased successfully", emailSent |-> sent]

TokensPurchased(l, balance) ==
  [status |-> 200, success |-> TRUE, new_balance |-> balance,
   tokens_added |-> l.totalTokens, bonus_tokens |-> l.bonus,
   receipt_number |-> l.receiptNumber,
   digital_signature |-> l.digitalSignature,
   square_payment_id |-> l.paymentId,
   message |-> "Successfully purchased tokens"]

-----------------------------------------------------------------------------
(* Rows *)

PurchaseRow(id, user_id, event_id, token, expires, receipt, sig, paid, t) ==
  [id |-> id, user_id |-> user_id, event_id |-> event_id,
   access_token |-> token, purchase_date |-> CURRENT_TIMESTAMP(t),
   expires_at |-> expires, receipt_number |-> receipt,
   digital_signature |-> sig, amount_paid |-> paid]

EventOrderRow(id, user_id, event_id, price, receipt, sig, t) ==
  [id |-> id, user_id |-> user_id, type |-> "Event Access",
   items |-> event_id, amount |-> [num |-> price, den |-> 1],
   status |-> "completed", square_payment_id |-> NULL,
   receipt_number |-> receipt, digital_signature |-> sig,
   created_at |-> CURRENT_TIMESTAMP(t)]

\* the row without the payment id of its charge
TokenPurchaseRow_WithoutPayment(id, user_id, package_id, pkg, pay, receipt, sig, t) ==
  [id |-> id, user_id |-> user_id, package_id |-> package_id,
   tokens_added |-> pkg.tokens, bonus_tokens |-> pkg.bonus,
   amount_paid |-> Dollars(pkg.price), square_payment_id |-> NULL,
   receipt_number |-> receipt, digital_signature |-> sig,
   created_at |-> CURRENT_TIMESTAMP(t)]

TokenPurchaseRow(id, user_id, package_id, pkg, pay, receipt, sig, t) ==
  [id |-> id, user_id |-> user_id, package_id |-> package_id,
   tokens_added |-> pkg.tokens, bonus_tokens |-> pkg.bonus,
   amount_paid |-> Dollars(pkg.price), square_payment_id |-> pay,
   receipt_number |-> receipt, digital_signature |-> sig,
   created_at |-> CURRENT_TIMESTAMP(t)]

TokenOrderRow(id, user_id, package_id, pkg, pay, receipt, sig, t) ==
  [id |-> id, user_id |-> user_id, type |-> "Token Package",
   items |-> package_id, amount |-> Dollars(pkg.price),
   status |-> "completed", square_payment_id |-> pay,
   receipt_number |-> receipt, digital_signature |-> sig,
   created_at |-> CURRENT_TIMESTAMP(t)]

\* the email without the number of the receipt it is about
Email_WithoutReceipt(user_id, receipt) == [to |-> user_id, receiptNumber |-> NULL]

\* resend.emails.send({to: email, subject: `Receipt ${receiptNumber} ...`})
Email(user_id, receipt) == [to |-> user_id, receiptNumber |-> receipt]

-----------------------------------------------------------------------------
(* Requests *)

Idle == [pc |-> "idle"]

\* a new request is served by the first handler slot that is not in use
Free(r) ==
  /\ req[r].pc = "idle"
  /\ \A q \in Reqs : q < r => req[q].pc # "idle"

-----------------------------------------------------------------------------
(* Initial state *)

Init ==
  /\ users \in [UserIds -> [token_balance : InitBalances \cup {SignupBalance}]]
  /\ users["u2"].token_balance = SignupBalance
  /\ users["u1"].token_balance \in InitBalances
  /\ purchases = {}
  /\ token_purchases = {}
  /\ orders = {}
  /\ payments = <<>>
  /\ emails = <<>>
  /\ req = [r \in Reqs |-> Idle]
  /\ response = NoResponse
  /\ started = 0
  /\ collide = FALSE
  /\ now \in Instants
  /\ engine = NoCall
  /\ tampered = {}

-----------------------------------------------------------------------------
(* POST /api/v1/purchases/events *)

\* the handler from its first line to `await sendReceiptEmail(...)`
PurchaseEvent(r, user_id, event_id) ==
  /\ Free(r)
  /\ UNCHANGED <<token_purchases, payments, collide, now,
                 engine, tampered>>
  /\ IF event_id \notin DOMAIN events
       THEN /\ response' = EventResponse(user_id, event_id, EventNotFound)
            /\ UNCHANGED <<users, purchases, orders, emails, req, started>>
     ELSE IF user_id \notin DOMAIN users
       THEN /\ response' = EventResponse(user_id, event_id, UserNotFound)
            /\ UNCHANGED <<users, purchases, orders, emails, req, started>>
     ELSE IF InsufficientTokens(users[user_id].token_balance, events[event_id].price)
       THEN /\ response' = EventResponse(user_id, event_id,
                             InsufficientBalance(events[event_id].price,
                                                 users[user_id].token_balance))
            /\ UNCHANGED <<users, purchases, orders, emails, req, started>>
     ELSE
       \E purchaseId \in generateId(Ids(purchases)),
          accessToken \in generateAccessToken,
          receiptNumber \in generateReceiptNumber,
          orderId \in generateId(Ids(orders)) :
         LET price == events[event_id].price
             expiresAt == expiresAtOf(now)
             signatureData ==
               EventSignatureData(receiptNumber, purchaseId, user_id, event_id,
                                  accessToken, price, expiresAt, toISOString(now))
             digitalSignature == generateDigitalSignature(signatureData)
             row == PurchaseRow(purchaseId, user_id, event_id, accessToken,
                                expiresAt, receiptNumber, digitalSignature,
                                price, now)
             order == EventOrderRow(orderId, user_id, event_id, price,
                                    receiptNumber, digitalSignature, now)
             locals == [accessToken |-> accessToken, expiresAt |-> expiresAt,
                        receiptNumber |-> receiptNumber,
                        digitalSignature |-> digitalSignature]
         IN /\ started < MaxPurchases
            /\ started' = started + 1
            /\ users' = Debit(users, user_id, price)
            /\ IF InsertFails(purchases, purchaseId)
                 THEN /\ response' = EventResponse(user_id, event_id, ServerError)
                      /\ UNCHANGED <<purchases, orders, emails, req>>
               ELSE IF InsertFails(orders, orderId)
                 THEN /\ purchases' = purchases \cup {row}
                      /\ response' = EventResponse(user_id, event_id, ServerError)
                      /\ UNCHANGED <<orders, emails, req>>
               ELSE /\ purchases' = purchases \cup {row}
                    /\ orders' = orders \cup {order}
                    /\ emails' = Append(emails, Email(user_id, receiptNumber))
                    /\ req' = [req EXCEPT ![r] =
                                 [pc |-> "awaitEmail", kind |-> "event",
                                  user_id |-> user_id, item |-> event_id,
                                  locals |-> locals]]
                    /\ response' = NoResponse

\* the handler without the try/catch around `await sendReceiptEmail(...)`
EventEmailSettled_Propagates(r, sent) ==
  /\ req[r].pc = "awaitEmail"
  /\ req[r].kind = "event"
  /\ response' = EventResponse(req[r].user_id, req[r].item,
                               IF sent THEN EventPurchased(req[r].locals, sent)
                                       ELSE ServerError)
  /\ req' = [req EXCEPT ![r] = Idle]
  /\ UNCHANGED <<users, purchases, token_purchases, orders, payments, emails,
                 started, collide, now,
                 engine, tampered>>

\* `await sendReceiptEmail(...)` settles; the handler runs to its response
EventEmailSettled(r, sent) ==
  /\ req[r].pc = "awaitEmail"
  /\ req[r].kind = "event"
  /\ response' = EventResponse(req[r].user_id, req[r].item,
                               EventPurchased(req[r].locals, sent))
  /\ req' = [req EXCEPT ![r] = Idle]
  /\ UNCHANGED <<users, purchases, token_purchases, orders, payments, emails,
                 started, collide, now,
                 engine, tampered>>

-----------------------------------------------------------------------------
(* POST /api/v1/tokens/purchase *)

\* what `await paymentsApi.createPayment(...)` can settle with: a payment, an
\* ApiError carrying the processor's error list, or any other error
ChargeResults ==
  { [ok |-> TRUE,  errors |-> FALSE, details |-> <<>>],
    [ok |-> FALSE, errors |-> TRUE,  details |-> <<"CARD_DECLINED">>],
    [ok |-> FALSE, errors |-> TRUE,  details |-> <<>>],
    [ok |-> FALSE, errors |-> FALSE, details |-> <<>>] }

\* the catch block without its branch on squareError.errors
SquareErrorResponse_AlwaysUnavailable(hasErrors, details) ==
  PaymentProcessorUnavailable

\* catch (squareError): the response chosen from the caught error
SquareErrorResponse(hasErrors, details) ==
  IF hasErrors THEN PaymentDeclined(details) ELSE PaymentProcessorUnavailable

\* the handler calling createPayment before it looks the user up
PurchaseTokens_ChargeFirst(r, user_id, package_id) ==
  /\ Free(r)
  /\ UNCHANGED <<users, purchases, token_purchases, orders, emails, collide, now,
                 engine, tampered>>
  /\ IF ~HasProperty(package_id)
       THEN /\ response' = TokenResponse(user_id, package_id, InvalidPackage)
            /\ UNCHANGED <<payments, req, started>>
     ELSE IF BigIntThrows(package_id)
       THEN /\ response' = TokenResponse(user_id, package_id,
                                          SquareErrorResponse(FALSE, <<>>))
            /\ UNCHANGED <<payments, req, started>>
     ELSE
       \E idempotencyKey \in generateId(IdempotencyKeys) :
         /\ started < MaxPurchases
         /\ started' = started + 1
         /\ payments' = Append(payments,
                          [idempotencyKey |-> idempotencyKey,
                           amount |-> packages[package_id].price,
                           buyer |-> user_id, status |-> "PENDING",
                           id |-> NULL])
         /\ IF user_id \notin DOMAIN users
              THEN /\ response' = TokenResponse(user_id, package_id, UserNotFound)
                   /\ UNCHANGED req
              ELSE /\ req' = [req EXCEPT ![r] =
                                [pc |-> "awaitCharge", kind |-> "tokens",
                                 user_id |-> user_id, item |-> package_id,
                                 locals |-> [payment |-> Len(payments) + 1]]]
                   /\ response' = NoResponse

\* the handler from its first line to `await paymentsApi.createPayment(...)`
PurchaseTokens(r, user_id, package_id) ==
  /\ Free(r)
  /\ UNCHANGED <<users, purchases, token_purchases, orders, emails, collide, now,
                 engine, tampered>>
  /\ IF ~HasProperty(package_id)
       THEN /\ response' = TokenResponse(user_id, package_id, InvalidPackage)
            /\ UNCHANGED <<payments, req, started>>
     ELSE IF user_id \notin DOMAIN users
       THEN /\ response' = TokenResponse(user_id, package_id, UserNotFound)
            /\ UNCHANGED <<payments, req, started>>
     ELSE IF BigIntThrows(package_id)
       THEN /\ response' = TokenResponse(user_id, package_id,
                                          SquareErrorResponse(FALSE, <<>>))
            /\ UNCHANGED <<payments, req, started>>
     ELSE
       \E idempotencyKey \in generateId(IdempotencyKeys) :
         /\ started < MaxPurchases
         /\ started' = started + 1
         /\ payments' = Append(payments,
                          [idempotencyKey |-> idempotencyKey,
                           amount |-> packages[package_id].price,
                           buyer |-> user_id, status |-> "PENDING",
                           id |-> NULL])
         /\ req' = [req EXCEPT ![r] =
                      [pc |-> "awaitCharge", kind |-> "tokens",
                       user_id |-> user_id, item |-> package_id,
                       locals |-> [payment |-> Len(payments) + 1]]]
         /\ response' = NoResponse

\* createPayment settles; on a payment the handler runs on to
\* `await sendReceiptEmail(...)`, on an error to the catch block's response
ChargeSettled(r, result) ==
  /\ req[r].pc = "awaitCharge"
  /\ UNCHANGED <<purchases, started, collide, now,
                 engine, tampered>>
  /\ LET user_id == req[r].user_id
         package_id == req[r].item
         pkg == packages[package_id]
         n == req[r].locals.payment
     IN IF ~result.ok
          THEN /\ payments' = [payments EXCEPT ![n].status = "FAILED"]
               /\ response' = TokenResponse(user_id, package_id,
                                SquareErrorResponse(result.errors, result.details))
               /\ req' = [req EXCEPT ![r] = Idle]
               /\ UNCHANGED <<users, token_purchases, orders, emails>>
        ELSE
          \E receiptNumber \in generateReceiptNumber,
             purchaseId \in generateId(Ids(token_purchases)),
             orderId \in generateId(Ids(orders)) :
            LET paymentId == PaymentIdOf(n)
                totalTokens == pkg.tokens + pkg.bonus
                signatureData ==
                  TokenSignatureData(receiptNumber, purchaseId, user_id,
                                     package_id, totalTokens,
                                     Dollars(pkg.price), paymentId,
                                     toISOString(now))
                digitalSignature == generateDigitalSignature(signatureData)
                row == TokenPurchaseRow(purchaseId, user_id, package_id, pkg,
                                        paymentId, receiptNumber,
                                        digitalSignature, now)
                order == TokenOrderRow(orderId, user_id, package_id, pkg,
                                       paymentId, receiptNumber,
                                       digitalSignature, now)
                locals == [payment |-> n,
                           totalTokens |-> totalTokens, bonus |-> pkg.bonus,
                           receiptNumber |-> receiptNumber,
                           digitalSignature |-> digitalSignature,
                           paymentId |-> paymentId]
                failed == TokenResponse(user_id, package_id,
                                        SquareErrorResponse(FALSE, <<>>))
            IN /\ payments' = [payments EXCEPT ![n].status = "COMPLETED",
                                               ![n].id = paymentId]
               /\ users' = Credit(users, user_id, totalTokens)
               /\ IF InsertFails(token_purchases, purchaseId)
                    THEN /\ response' = failed
                         /\ req' = [req EXCEPT ![r] = Idle]
                         /\ UNCHANGED <<token_purchases, orders, emails>>
                  ELSE IF InsertFails(orders, orderId)
                    THEN /\ token_purchases' = token_purchases \cup {row}
                         /\ response' = failed
                         /\ req' = [req EXCEPT ![r] = Idle]
                         /\ UNCHANGED <<orders, emails>>
                  ELSE /\ token_purchases' = token_purchases \cup {row}
                       /\ orders' = orders \cup {order}
                       /\ emails' = Append(emails, Email(user_id, receiptNumber))
                       /\ req' = [req EXCEPT ![r] =
                                    [pc |-> "awaitEmail", kind |-> "tokens",
                                     user_id |-> user_id, item |-> package_id,
                                     locals |-> locals]]
                       /\ response' = NoResponse

\* `await sendReceiptEmail(...)` settles inside the payment try block: the
\* handler reads the balance and responds, or the catch block responds
TokenEmailSettled(r, sent) ==
  /\ req[r].pc = "awaitEmail"
  /\ req[r].kind = "tokens"
  /\ response' =
       TokenResponse(req[r].user_id, req[r].item,
         IF sent
           THEN TokensPurchased(req[r].locals,
                                users[req[r].user_id].token_balance)
           ELSE SquareErrorResponse(FALSE, <<>>))
  /\ req' = [req EXCEPT ![r] = Idle]
  /\ UNCHANGED <<users, purchases, token_purchases, orders, payments, emails,
                 started, collide, now,
                 engine, tampered>>

-----------------------------------------------------------------------------
(* GET /api/v1/receipts/:receiptNumber *)

\* the fact tuple rebuilt from a token_purchases row
TokenReceiptData(tp) ==
  TokenSignatureData(tp.receipt_number, tp.id, tp.user_id, tp.package_id,
                     tp.tokens_added + tp.bonus_tokens, tp.amount_paid,
                     tp.square_payment_id, tp.created_at)

\* the fact tuple rebuilt from a purchases row
EventReceiptData(ep) ==
  EventSignatureData(ep.receipt_number, ep.id, ep.user_id, ep.event_id,
                     ep.access_token, ep.amount_paid, ep.expires_at,
                     ep.purchase_date)

TokenReceipt(tp) ==
  [status |-> 200, type |-> "token_purchase",
   receipt_number |-> tp.receipt_number, purchase_id |-> tp.id,
   digital_signature |-> tp.digital_signature,
   signature_valid |->
     verifyDigitalSignature(TokenReceiptData(tp), tp.digital_signature)]

EventReceipt(ep) ==
  [status |-> 200, type |-> "event_purchase",
   receipt_number |-> ep.receipt_number, purchase_id |-> ep.id,
   digital_signature |-> ep.digital_signature,
   signature_valid |->
     verifyDigitalSignature(EventReceiptData(ep), ep.digital_signature)]

ReceiptNotFound(receiptNumber) ==
  [status |-> 404, message |-> "Receipt not found",
   receipt_number |-> receiptNumber]

ReceiptResponse(receiptNumber, body) ==
  [op |-> "receipt", item |-> receiptNumber, status |-> body.status,
   body |-> body]

\* the rows of SELECT ... JOIN users ... WHERE receipt_number = ?
ByReceipt(rows, receiptNumber) ==
  {row \in rows : row.receipt_number = receiptNumber
                  /\ row.user_id \in DOMAIN users}

\* the rows of purchases p JOIN events e ON p.event_id = e.id
WithEvent(rows) == {row \in rows : row.event_id \in DOMAIN events}

\* the place of a row in its table: the n-th row inserted has the n-th id
RowId(row) ==
  CHOOSE n \in 1..(Cardinality(purchases) + Cardinality(token_purchases)) :
    row.id = "id_" \o ToString(n)

\* .get(): the first row of the result, which SQLite scans in rowid order
get(rows) ==
  CHOOSE row \in rows : \A other \in rows : RowId(row) <= RowId(other)

\* the lookup searching purchases before token_purchases
ReceiptView_EventsFirst(receiptNumber) ==
  IF ByReceipt(WithEvent(purchases), receiptNumber) # {}
    THEN LET eventPurchase ==
               get(ByReceipt(WithEvent(purchases), receiptNumber))
         IN IF verifyThrows(EventReceiptData(eventPurchase),
                            eventPurchase.digital_signature)
              THEN ServerError
              ELSE EventReceipt(eventPurchase)
  ELSE IF ByReceipt(token_purchases, receiptNumber) # {}
    THEN LET tokenPurchase == get(ByReceipt(token_purchases, receiptNumber))
         IN IF verifyThrows(TokenReceiptData(tokenPurchase),
                            tokenPurchase.digital_signature)
              THEN ServerError
              ELSE TokenReceipt(tokenPurchase)
  ELSE ReceiptNotFound(receiptNumber)

\* the body the handler answers with: the token purchase of the receipt
\* number, else the event purchase of it, else 404; 500 when verifying throws
ReceiptView(receiptNumber) ==
  IF ByReceipt(token_purchases, receiptNumber) # {}
    THEN LET tokenPurchase == get(ByReceipt(token_purchases, receiptNumber))
         IN IF verifyThrows(TokenReceiptData(tokenPurchase),
                            tokenPurchase.digital_signature)
              THEN ServerError
              ELSE TokenReceipt(tokenPurchase)
  ELSE IF ByReceipt(WithEvent(purchases), receiptNumber) # {}
    THEN LET eventPurchase ==
               get(ByReceipt(WithEvent(purchases), receiptNumber))
         IN IF verifyThrows(EventReceiptData(eventPurchase),
                            eventPurchase.digital_signature)
              THEN ServerError
              ELSE EventReceipt(eventPurchase)
  ELSE ReceiptNotFound(receiptNumber)

\* the lookup writing the signature it recomputed back into the row
GetReceipt_StoresVerdict(receiptNumber) ==
  /\ response' = ReceiptResponse(receiptNumber, ReceiptView(receiptNumber))
  /\ purchases' =
       {IF row.receipt_number = receiptNumber
          THEN [row EXCEPT !.digital_signature =
                             generateDigitalSignature(EventReceiptData(row))]
          ELSE row : row \in purchases}
  /\ UNCHANGED <<users, token_purchases, orders, payments, emails,
                 req, started, collide, now, engine, tampered>>

\* the handler, which holds no await
GetReceipt(receiptNumber) ==
  /\ response' = ReceiptResponse(receiptNumber, ReceiptView(receiptNumber))
  /\ UNCHANGED <<users, purchases, token_purchases, orders, payments, emails,
                 req, started, collide, now, engine, tampered>>

-----------------------------------------------------------------------------

Next ==
  \/ \E r \in Reqs, u \in ReqUserIds, e \in ReqEventIds : PurchaseEvent(r, u, e)
  \/ \E r \in Reqs, sent \in BOOLEAN : EventEmailSettled(r, sent)
  \/ \E r \in Reqs, u \in ReqUserIds, p \in ReqPackageIds : PurchaseTokens(r, u, p)
  \/ \E r \in Reqs, result \in ChargeResults : ChargeSettled(r, result)
  \/ \E r \in Reqs, sent \in BOOLEAN : TokenEmailSettled(r, sent)
  \/ \E n \in Receipts \cup {"RCP-0"} : GetReceipt(n)

Spec == Init /\ [][Next]_vars

-----------------------------------------------------------------------------
(* One client buying every package of the table, one request at a time *)

NextPackages ==
  \/ \E p \in PackageIds : PurchaseTokens(1, "u1", p)
  \/ \E result \in ChargeResults : ChargeSettled(1, result)
  \/ \E sent \in BOOLEAN : TokenEmailSettled(1, sent)
  \/ \E n \in Receipts : GetReceipt(n)

SpecPackages == Init /\ [][NextPackages]_vars

-----------------------------------------------------------------------------
(* The same requests when the identifier generators can repeat a value *)

InitCollide ==
  /\ users \in [UserIds -> [token_balance : InitBalances \cup {SignupBalance}]]
  /\ users["u2"].token_balance = SignupBalance
  /\ users["u1"].token_balance \in InitBalances
  /\ purchases = {}
  /\ token_purchases = {}
  /\ orders = {}
  /\ payments = <<>>
  /\ emails = <<>>
  /\ req = [r \in Reqs |-> Idle]
  /\ response = NoResponse
  /\ started = 0
  /\ collide = TRUE
  /\ now \in Instants
  /\ engine = NoCall
  /\ tampered = {}

SpecCollide == InitCollide /\ [][Next]_vars

-----------------------------------------------------------------------------
(* One token purchase whose caller sends the request again *)

\* the charges the payment processor executes: it executes one charge for
\* each idempotency key, whatever the number of calls that carry the key
Charges ==
  {payments[i].idempotencyKey :
     i \in {j \in DOMAIN payments : payments[j].status = "COMPLETED"}}

\* the first request of the purchase
FirstRequest(r, user_id, package_id) ==
  /\ payments = <<>>
  /\ \A q \in Reqs : req[q].pc = "idle"
  /\ PurchaseTokens(r, user_id, package_id)

\* the caller, without a response to a request in flight, sends the same body
\* {package_id, user_id, source_id, verification_token} again
Retry(r) ==
  \E q \in Reqs :
    /\ req[q].pc # "idle"
    /\ PurchaseTokens(r, req[q].user_id, req[q].item)

NextRetry ==
  \/ \E r \in Reqs, u \in ReqUserIds, p \in PackageIds \cup ReqPackageIds :
       FirstRequest(r, u, p)
  \/ \E r \in Reqs : Retry(r)
  \/ \E r \in Reqs, result \in ChargeResults : ChargeSettled(r, result)
  \/ \E r \in Reqs, sent \in BOOLEAN : TokenEmailSettled(r, sent)

SpecRetry == Init /\ [][NextRetry]_vars

-----------------------------------------------------------------------------
(* The signature engine on its own: a fact is signed, then the signature is
   verified against the fact and against a second fact *)

\* the fact tuples of event purchases, two values for each field
EventFacts ==
  {EventSignatureData(receipt, id, user_id, event_id, token, spent, expires, ts) :
     receipt \in {"RCP-1", "RCP-2"}, id \in {"id_1", "id_2"},
     user_id \in UserIds, event_id \in EventIds,
     token \in {"tok_1", "tok_2"}, spent \in {25, 50},
     expires \in {expiresAtOf(t) : t \in Instants},
     ts \in {toISOString(now), CURRENT_TIMESTAMP(now)}}

\* the fact tuples of token purchases, two values for each field
TokenFacts ==
  {TokenSignatureData(receipt, id, user_id, package_id, tokens, amount, pay, ts) :
     receipt \in {"RCP-1", "RCP-2"}, id \in {"id_1", "id_2"},
     user_id \in UserIds, package_id \in {"100", "250"},
     tokens \in {100, 300}, amount \in {Dollars(499), Dollars(999)},
     pay \in {PaymentIdOf(1), PaymentIdOf(2)},
     ts \in {toISOString(now), CURRENT_TIMESTAMP(now)}}

\* the fields in which two fact tuples of one kind differ
FieldsChanged(f, g) == {i \in DOMAIN f : f[i][2] # g[i][2]}

InitSign ==
  /\ users \in [UserIds -> [token_balance : InitBalances \cup {SignupBalance}]]
  /\ users["u2"].token_balance = SignupBalance
  /\ users["u1"].token_balance \in InitBalances
  /\ purchases = {}
  /\ token_purchases = {}
  /\ orders = {}
  /\ payments = <<>>
  /\ emails = <<>>
  /\ req = [r \in Reqs |-> Idle]
  /\ response = NoResponse
  /\ started = 0
  /\ collide = FALSE
  /\ now \in Instants
  /\ \E facts \in {EventFacts, TokenFacts} :
       \E f \in facts, g \in facts :
         /\ Cardinality(FieldsChanged(f, g)) <= 1
         /\ engine = [stage |-> "fact", fact |-> f, other |-> g]
  /\ tampered = {}

\* const signature = generateDigitalSignature(fact)
Sign ==
  /\ engine.stage = "fact"
  /\ engine' = [stage |-> "signed", fact |-> engine.fact,
                other |-> engine.other,
                signature |-> generateDigitalSignature(engine.fact)]
  /\ UNCHANGED <<users, purchases, token_purchases, orders, payments, emails,
                 req, response, started, collide, now,
                 tampered>>

\* verifyDigitalSignature(fact, signature) and verifyDigitalSignature(other,
\* signature), and the fact signed a second time
Verify ==
  /\ engine.stage = "signed"
  /\ engine' =
       [stage |-> "verified", fact |-> engine.fact, other |-> engine.other,
        signature |-> engine.signature,
        threw |-> \/ verifyThrows(engine.fact, engine.signature)
                  \/ verifyThrows(engine.other, engine.signature),
        valid |-> verifyDigitalSignature(engine.fact, engine.signature),
        validOther |-> verifyDigitalSignature(engine.other, engine.signature),
        again |-> generateDigitalSignature(engine.fact)]
  /\ UNCHANGED <<users, purchases, token_purchases, orders, payments, emails,
                 req, response, started, collide, now,
                 tampered>>

NextSign == Sign \/ Verify

SpecSign == InitSign /\ [][NextSign]_vars

-----------------------------------------------------------------------------
(* One client's purchases, with the rows open to edits made directly in the
   database file *)

\* most direct edits in one behaviour
MaxTamper == 1

\* values a direct edit can write into a column of token_purchases
TokenPurchaseEdits ==
  [tokens_added      |-> {1000},
   bonus_tokens      |-> {500},
   amount_paid       |-> {Dollars(1)},
   user_id           |-> {"u2"},
   package_id        |-> {"1000"},
   square_payment_id |-> {PaymentIdOf(0)},
   created_at        |-> {toISOString(t) : t \in Instants},
   digital_signature |-> {Malformed(0), Malformed(32)}]

\* values a direct edit can write into a column of purchases
PurchaseEdits ==
  [user_id           |-> {"u2"},
   event_id          |-> {"evt_upcoming_1"},
   access_token      |-> {"tok_0"},
   amount_paid       |-> {0},
   expires_at        |-> {expiresAtOf([s |-> ValiditySeconds, ms |-> 0])},
   purchase_date     |-> {toISOString(t) : t \in Instants},
   digital_signature |-> {NullSignature, Malformed(0), Malformed(32)}]

\* UPDATE <table> SET <column> = <value> WHERE id = <the row's id>, run on
\* the database file by someone other than the server
Tamper(table, row, column, value) ==
  /\ Cardinality(tampered) < MaxTamper
  /\ row[column] # value
  /\ tampered' = tampered \cup {[table |-> table, id |-> row.id, column |-> column]}
  /\ IF table = "token_purchases"
       THEN /\ token_purchases' =
                 (token_purchases \ {row}) \cup {[row EXCEPT ![column] = value]}
            /\ UNCHANGED purchases
       ELSE /\ purchases' =
                 (purchases \ {row}) \cup {[row EXCEPT ![column] = value]}
            /\ UNCHANGED token_purchases
  /\ response' = NoResponse
  /\ UNCHANGED <<users, orders, payments, emails, req, started, collide, now,
                 engine>>

NextTamper ==
  \/ \E e \in ReqEventIds : PurchaseEvent(1, "u1", e)
  \/ \E sent \in BOOLEAN : EventEmailSettled(1, sent)
  \/ \E p \in ReqPackageIds : PurchaseTokens(1, "u1", p)
  \/ \E result \in ChargeResults : ChargeSettled(1, result)
  \/ \E sent \in BOOLEAN : TokenEmailSettled(1, sent)
  \/ \E row \in token_purchases, column \in DOMAIN TokenPurchaseEdits :
       \E value \in TokenPurchaseEdits[column] :
         Tamper("token_purchases", row, column, value)
  \/ \E row \in purchases, column \in DOMAIN PurchaseEdits :
       \E value \in PurchaseEdits[column] :
         Tamper("purchases", row, column, value)
  \/ \E n \in Receipts \cup {"RCP-0"} : GetReceipt(n)

SpecTamper == Init /\ [][NextTamper]_vars

-----------------------------------------------------------------------------
(* POST /api/v1/events/:eventId/stream and GET /api/v1/users/:userId/events,
   with a clock that advances *)

\* readings of the clock around the expiry of the grants issued at Instants
LaterInstants ==
  { [s |-> ValiditySeconds,     ms |-> 0],
    [s |-> ValiditySeconds + 1, ms |-> 250],
    [s |-> ValiditySeconds + 1, ms |-> 500],
    [s |-> ValiditySeconds + 1, ms |-> 750],
    [s |-> ValiditySeconds + 2, ms |-> 0] }

\* time passes
Tick(t) ==
  /\ Earlier(now, t)
  /\ now' = t
  /\ response' = NoResponse
  /\ UNCHANGED <<users, purchases, token_purchases, orders, payments, emails,
                 req, started, collide, engine, tampered>>

\* SQLite datetime(x): 'YYYY-MM-DD HH:MM:SS', the fraction of the second cut
\* off; two such texts compare as their whole seconds do
datetime(t) == t.s

\* WHERE user_id = ? AND event_id = ? AND datetime(expires_at) > datetime('now')
ValidPurchases(user_id, eventId) ==
  {p \in purchases : /\ p.user_id = user_id
                     /\ p.event_id = eventId
                     /\ datetime(p.expires_at) > datetime(now)}

StreamResponse(user_id, eventId, body) ==
  [op |-> "stream", user_id |-> user_id, item |-> eventId,
   status |-> body.status, body |-> body]

NoValidPurchase == [status |-> 403, message |-> "No valid purchase found"]

StreamNotAvailable == [status |-> 404, message |-> "Stream not available"]

\* what the stream handler answers to {user_id} for eventId: the request
\* carries nothing else, and the handler reads the purchases and events rows
\* and the clock
StreamView(user_id, eventId) ==
  IF ValidPurchases(user_id, eventId) = {} THEN NoValidPurchase
  ELSE IF eventId \notin DOMAIN events
          \/ events[eventId].youtube_url = NULL
    THEN StreamNotAvailable
  ELSE [status |-> 200, stream_url |-> events[eventId].youtube_url,
        expires_at |-> get(ValidPurchases(user_id, eventId)).expires_at]

\* the stream handler without the expiry condition of its query
GetStream_IgnoresExpiry(user_id, eventId) ==
  /\ UNCHANGED <<users, purchases, token_purchases, orders, payments, emails,
                 req, started, collide, now, engine, tampered>>
  /\ LET bought == {p \in purchases : p.user_id = user_id /\ p.event_id = eventId}
     IN response' = StreamResponse(user_id, eventId,
          IF bought = {} THEN NoValidPurchase
          ELSE IF eventId \notin DOMAIN events
                  \/ events[eventId].youtube_url = NULL
            THEN StreamNotAvailable
          ELSE [status |-> 200, stream_url |-> events[eventId].youtube_url,
                expires_at |-> get(bought).expires_at])

\* the stream handler, which holds no await
GetStream(user_id, eventId) ==
  /\ UNCHANGED <<users, purchases, token_purchases, orders, payments, emails,
                 req, started, collide, now, engine, tampered>>
  /\ response' = StreamResponse(user_id, eventId, StreamView(user_id, eventId))

\* the status derived as the stream query compares, in whole seconds
GrantStatus_WholeSeconds(p, t) ==
  IF datetime(p.expires_at) > datetime(t) THEN "active" ELSE "expired"

\* new Date(p.expires_at) > new Date() ? 'active' : 'expired'
GrantStatus(p, t) == IF Earlier(t, p.expires_at) THEN "active" ELSE "expired"

\* the users/:userId/events handler, which holds no await; the entries of the
\* list without their order
GetUserEvents(userId) ==
  /\ UNCHANGED <<users, purchases, token_purchases, orders, payments, emails,
                 req, started, collide, now, engine, tampered>>
  /\ LET rows == {p \in WithEvent(purchases) : p.user_id = userId}
     IN response' =
          [op |-> "userEvents", user_id |-> userId, item |-> NULL,
           status |-> 200,
           body |-> [status |-> 200,
                     events |-> {[id |-> p.id, event_id |-> p.event_id,
                                  purchase_date |-> p.purchase_date,
                                  expires_at |-> p.expires_at,
                                  status |-> GrantStatus(p, now)] : p \in rows},
                     total |-> Cardinality(rows)]]

NextClock ==
  \/ \E e \in EventIds : PurchaseEvent(1, "u1", e)
  \/ \E sent \in BOOLEAN : EventEmailSettled(1, sent)
  \/ \E t \in Instants \cup LaterInstants : Tick(t)
  \/ \E u \in UserIds, e \in EventIds \cup ReqEventIds : GetStream(u, e)
  \/ \E u \in ReqUserIds : GetUserEvents(u)

SpecClock == Init /\ [][NextClock]_vars

-----------------------------------------------------------------------------
(* One client's purchases and receipt lookups when the identifier generators
   can repeat a value: a receipt number can be in both tables *)

NextNamespaces ==
  \/ \E e \in ReqEventIds : PurchaseEvent(1, "u1", e)
  \/ \E sent \in BOOLEAN : EventEmailSettled(1, sent)
  \/ \E p \in ReqPackageIds : PurchaseTokens(1, "u1", p)
  \/ \E result \in ChargeResults : ChargeSettled(1, result)
  \/ \E sent \in BOOLEAN : TokenEmailSettled(1, sent)
  \/ \E n \in Receipts \cup {"RCP-0"} : GetReceipt(n)

SpecNamespaces == InitCollide /\ [][NextNamespaces]_vars

-----------------------------------------------------------------------------
(* The handlers that read the users table, the sign-up, and the seed script;
   every operation on the data store in one specification *)

\* const userId = 'user_test123': the users row seed.js writes
TestUserId == "u1"

\* .run(userId, 'test@fightpass.com', hashedPassword, 'Test User', 500)
SeedBalance == 500

\* users.email is UNIQUE NOT NULL, so a users row has one id and one email:
\* one name stands for both.  The emails a request body can carry: those of
\* the users rows, one of no users row yet, and none
NoEmail == ""
ReqEmails == UserIds \cup {"u3", NoEmail}
ReqPasswords == {"", "secret"}

UserResponse(op, user_id, body) ==
  [op |-> op, user_id |-> user_id, item |-> NULL,
   status |-> body.status, body |-> body]

InvalidCredentials == [status |-> 401, message |-> "Invalid credentials"]

CredentialsRequired == [status |-> 400, message |-> "Email and password required"]

UserAlreadyExists == [status |-> 400, message |-> "User already exists"]

\* GET /api/v1/users/:userId/tokens, which holds no await
GetBalance(userId) ==
  /\ UNCHANGED <<users, purchases, token_purchases, orders, payments, emails,
                 req, started, collide, now, engine, tampered>>
  /\ response' = UserResponse("tokens", userId,
       IF userId \notin DOMAIN users THEN UserNotFound
       ELSE [status |-> 200, balance |-> users[userId].token_balance,
             user_id |-> userId])

\* GET /api/v1/users/:userId/orders, which holds no await; the entries of the
\* list without their order
GetOrders(userId) ==
  /\ UNCHANGED <<users, purchases, token_purchases, orders, payments, emails,
                 req, started, collide, now, engine, tampered>>
  /\ LET rows == {o \in orders : o.user_id = userId}
     IN response' = UserResponse("orders", userId,
          [status |-> 200,
           orders |-> {[id |-> o.id, type |-> o.type, items |-> o.items,
                        date |-> o.created_at, amount |-> o.amount,
                        status |-> o.status] : o \in rows},
           total |-> Cardinality(rows)])

\* GET /api/v1/users/:userId, which holds no await
GetUser(userId) ==
  /\ UNCHANGED <<users, purchases, token_purchases, orders, payments, emails,
                 req, started, collide, now, engine, tampered>>
  /\ response' = UserResponse("user", userId,
       IF userId \notin DOMAIN users THEN UserNotFound
       ELSE [status |-> 200, id |-> userId,
             token_balance |-> users[userId].token_balance])

\* POST /api/v1/auth/signin from its first line to `await bcrypt.compare(...)`
SignIn(r, email) ==
  /\ Free(r)
  /\ UNCHANGED <<users, purchases, token_purchases, orders, payments, emails,
                 started, collide, now, engine, tampered>>
  /\ IF email \notin DOMAIN users
       THEN /\ response' = UserResponse("signin", email, InvalidCredentials)
            /\ UNCHANGED req
     ELSE /\ req' = [req EXCEPT ![r] =
                       [pc |-> "awaitCompare", kind |-> "signin",
                        user_id |-> email, item |-> NULL,
                        locals |-> [user |-> users[email]]]]
          /\ response' = NoResponse

\* bcrypt.compare settles; the response carries the row read before the await
CompareSettled(r, validPassword) ==
  /\ req[r].pc = "awaitCompare"
  /\ response' = UserResponse("signin", req[r].user_id,
       IF ~validPassword THEN InvalidCredentials
       ELSE [status |-> 200, user_id |-> req[r].user_id,
             token_balance |-> req[r].locals.user.token_balance])
  /\ req' = [req EXCEPT ![r] = Idle]
  /\ UNCHANGED <<users, purchases, token_purchases, orders, payments, emails,
                 started, collide, now, engine, tampered>>

\* POST /api/v1/auth/signup from its first line to `await bcrypt.hash(...)`
SignUp(r, email, password) ==
  /\ Free(r)
  /\ UNCHANGED <<users, purchases, token_purchases, orders, payments, emails,
                 started, collide, now, engine, tampered>>
  /\ IF email = NoEmail \/ password = ""
       THEN /\ response' = UserResponse("signup", email, CredentialsRequired)
            /\ UNCHANGED req
     ELSE IF email \in DOMAIN users
       THEN /\ response' = UserResponse("signup", email, UserAlreadyExists)
            /\ UNCHANGED req
     ELSE /\ req' = [req EXCEPT ![r] =
                       [pc |-> "awaitHash", kind |-> "signup",
                        user_id |-> email, item |-> NULL,
                        locals |-> [email |-> email]]]
          /\ response' = NoResponse

\* bcrypt.hash settles; INSERT INTO users throws when the email is in the
\* table by now
HashSettled(r) ==
  /\ req[r].pc = "awaitHash"
  /\ req' = [req EXCEPT ![r] = Idle]
  /\ UNCHANGED <<purchases, token_purchases, orders, payments, emails,
                 started, collide, now, engine, tampered>>
  /\ IF req[r].user_id \in DOMAIN users
       THEN /\ response' = UserResponse("signup", req[r].user_id, ServerError)
            /\ UNCHANGED users
     ELSE /\ users' = users @@
                        (req[r].user_id :> [token_balance |-> SignupBalance])
          /\ response' = UserResponse("signup", req[r].user_id,
                           [status |-> 201, user_id |-> req[r].user_id,
                            token_balance |-> SignupBalance])

\* seed.js with ON DELETE CASCADE on the rows that reference the user
Seed_DeletesRows ==
  /\ users' = [u \in DOMAIN users \cup {TestUserId} |->
                 IF u = TestUserId THEN [token_balance |-> SeedBalance]
                                   ELSE users[u]]
  /\ purchases' = {p \in purchases : p.user_id # TestUserId}
  /\ token_purchases' = {p \in token_purchases : p.user_id # TestUserId}
  /\ response' = NoResponse
  /\ UNCHANGED <<orders, payments, emails, req, started,
                 collide, now, engine, tampered>>

\* `npm run seed`, a process of its own on the same database file: INSERT OR
\* REPLACE INTO users puts the test user's row in place of the row with its
\* id; the events rows it replaces get the values they have
Seed ==
  /\ users' = [u \in DOMAIN users \cup {TestUserId} |->
                 IF u = TestUserId THEN [token_balance |-> SeedBalance]
                                   ELSE users[u]]
  /\ response' = NoResponse
  /\ UNCHANGED <<purchases, token_purchases, orders, payments, emails, req,
                 started, collide, now, engine, tampered>>

\* the database after `npm run seed`, the server started
InitSeeded ==
  /\ Init
  /\ users[TestUserId].token_balance = SeedBalance

NextOperations ==
  \/ \E e \in ReqEventIds : PurchaseEvent(1, TestUserId, e)
  \/ \E sent \in BOOLEAN : EventEmailSettled(1, sent)
  \/ PurchaseTokens(1, TestUserId, "250")
  \/ \E result \in ChargeResults : ChargeSettled(1, result)
  \/ \E sent \in BOOLEAN : TokenEmailSettled(1, sent)
  \/ \E n \in Receipts \cup {"RCP-0"} : GetReceipt(n)
  \/ \E t \in {i \in LaterInstants : i.s > ValiditySeconds + 1} : Tick(t)
  \/ GetStream(TestUserId, "evt_live_championship")
  \/ GetUserEvents(TestUserId)
  \/ \E u \in {TestUserId, "u_none"} : GetBalance(u)
  \/ GetOrders(TestUserId)
  \/ GetUser(TestUserId)
  \/ \E email \in ReqEmails : SignIn(1, email)
  \/ \E validPassword \in BOOLEAN : CompareSettled(1, validPassword)
  \/ \E email \in ReqEmails, password \in ReqPasswords : SignUp(1, email, password)
  \/ HashSettled(1)
  \/ Seed

SpecOperations == InitSeeded /\ [][NextOperations]_vars

-----------------------------------------------------------------------------
(* One client's purchases when the mail service may never answer: the event
   loop runs a handler on when the promise it awaits settles, and the payment
   processor settles every createPayment; nothing makes emails.send settle *)

SpecSilentSink ==
  /\ Init
  /\ [][NextNamespaces]_vars
  /\ WF_vars(\E result \in ChargeResults : ChargeSettled(1, result))

-----------------------------------------------------------------------------
(* The purchase routes behind authenticateToken *)

\* the Authorization header of a request: none, a bearer token that does not
\* verify, or the token jwt.sign({userId, email}, ...) issued to a user
NoToken == [kind |-> "none"]
InvalidToken == [kind |-> "invalid"]
Bearer(userId) == [kind |-> "jwt", userId |-> userId]
AuthHeaders == {NoToken, InvalidToken} \cup {Bearer(u) : u \in UserIds}

NoTokenProvided == [status |-> 401, message |-> "No token provided"]

InvalidTokenResponse == [status |-> 403, message |-> "Invalid token"]

\* the middleware: a response, or req.user = user and next()
authenticateToken(token) ==
  IF token = NoToken THEN NoTokenProvided
  ELSE IF token.kind # "jwt" THEN InvalidTokenResponse
  ELSE [status |-> 200, next |-> TRUE, user |-> [userId |-> token.userId]]

\* app.post('/api/v1/purchases/events', authenticateToken, async (req, res) => ...)
PostPurchasesEvents(token, r, user_id, event_id) ==
  IF authenticateToken(token).status # 200
    THEN /\ Free(r)
         /\ response' = EventResponse(user_id, event_id, authenticateToken(token))
         /\ UNCHANGED <<users, purchases, token_purchases, orders, payments,
                        emails, req, started, collide, now, engine, tampered>>
  ELSE PurchaseEvent(r, user_id, event_id)

\* app.post('/api/v1/tokens/purchase', authenticateToken, async (req, res) => ...)
PostTokensPurchase(token, r, user_id, package_id) ==
  IF authenticateToken(token).status # 200
    THEN /\ Free(r)
         /\ response' = TokenResponse(user_id, package_id, authenticateToken(token))
         /\ UNCHANGED <<users, purchases, token_purchases, orders, payments,
                        emails, req, started, collide, now, engine, tampered>>
  ELSE PurchaseTokens(r, user_id, package_id)

NextAuth ==
  \/ \E token \in AuthHeaders, u \in ReqUserIds, e \in ReqEventIds :
       PostPurchasesEvents(token, 1, u, e)
  \/ \E sent \in BOOLEAN : EventEmailSettled(1, sent)
  \/ \E token \in AuthHeaders, u \in ReqUserIds, p \in ReqPackageIds :
       PostTokensPurchase(token, 1, u, p)
  \/ \E result \in ChargeResults : ChargeSettled(1, result)
  \/ \E sent \in BOOLEAN : TokenEmailSettled(1, sent)

SpecAuth == Init /\ [][NextAuth]_vars

-----------------------------------------------------------------------------
(* One client's purchases on the seeded database when the identifier
   generators can repeat a value: a debit or a credit whose INSERT throws *)

\* the balance of a users row when it was written: 500 by seed.js, 0 by the
\* sign-up
InitialBalance(u) == IF u = TestUserId THEN SeedBalance ELSE SignupBalance

InitLedger ==
  /\ InitCollide
  /\ \A u \in DOMAIN users : users[u].token_balance = InitialBalance(u)

SpecLedger == InitLedger /\ [][NextNamespaces]_vars

-----------------------------------------------------------------------------
(* Properties *)

\* a step in which handler r of the given kind sends its response
Responds(r, kind) ==
  /\ req[r].pc # "idle"
  /\ req[r].kind = kind
  /\ req'[r].pc = "idle"

\* a step in which handler r debits and persists an event purchase
Grants(r) ==
  /\ req[r].pc = "idle"
  /\ req'[r].pc = "awaitEmail"
  /\ req'[r].kind = "event"

\* C1: every balance is a non-negative integer in every reachable state; a
\* balance only ever decreases by the price of an event that the balance read
\* in the same step covers, so no debit rests on a stale balance; and an event
\* purchase whose price exceeds the current balance is rejected with the
\* users table unchanged.
C1_BalanceNeverNegative ==
  /\ [](\A u \in DOMAIN users : users[u].token_balance \in Nat)
  /\ [][\A u \in DOMAIN users :
          users'[u].token_balance < users[u].token_balance =>
            \E e \in DOMAIN events :
              /\ events[e].price <= users[u].token_balance
              /\ users'[u].token_balance = users[u].token_balance - events[e].price]_vars
  /\ [][\A r \in Reqs, u \in DOMAIN users, e \in DOMAIN events :
          (PurchaseEvent(r, u, e) /\ events[e].price > users[u].token_balance) =>
            /\ response'.status = 400
            /\ users' = users]_vars

\* a second event purchase of a user is rejected while the first one, which
\* took the whole balance, is still in flight
C1_Witness ==
  \E r \in Reqs :
    /\ req[r].pc = "awaitEmail"
    /\ req[r].kind = "event"
    /\ response.op = "purchaseEvent"
    /\ response.status = 400
    /\ response.user_id = req[r].user_id
    /\ users[req[r].user_id].token_balance = 0

\* C2: a successful event purchase of a user with balance b >= p leaves the
\* balance at exactly b - p and adds exactly one purchases row for (user,
\* event) with amount p and expiry = issuance time + 30 days; the response
\* carries that row's access credential, expiry, receipt number and signature.
C2_EventPurchaseEffect ==
  /\ [][\A r \in Reqs : Grants(r) =>
          LET u == req'[r].user_id
              e == req'[r].item
          IN /\ users[u].token_balance >= events[e].price
             /\ users'[u].token_balance = users[u].token_balance - events[e].price
             /\ \A v \in DOMAIN users \ {u} : users'[v] = users[v]
             /\ Cardinality(purchases') = Cardinality(purchases) + 1
             /\ \E row \in purchases' \ purchases :
                  /\ purchases' = purchases \cup {row}
                  /\ row.user_id = u
                  /\ row.event_id = e
                  /\ row.amount_paid = events[e].price
                  /\ row.expires_at = [fmt |-> "iso",
                                       s |-> now.s + 30 * 24 * 60 * 60,
                                       ms |-> now.ms]]_vars
  /\ [][\A r \in Reqs : (Responds(r, "event") /\ response'.status = 200) =>
          /\ purchases' = purchases
          /\ users' = users
          /\ \E row \in purchases :
               /\ row.user_id = req[r].user_id
               /\ row.event_id = req[r].item
               /\ row.access_token = response'.body.access_token
               /\ row.expires_at = response'.body.expires_at
               /\ row.receipt_number = response'.body.receipt_number
               /\ row.digital_signature = response'.body.digital_signature]_vars

\* an event purchase has returned success
C2_Witness ==
  /\ response.op = "purchaseEvent"
  /\ response.status = 200
  /\ \E row \in purchases : row.receipt_number = response.body.receipt_number

\* C3: for every receipt of a successful purchase whose row has not been
\* altered, the receipt lookup returns signature_valid = true.
C3_UnalteredReceiptValid ==
  (response.op = "receipt" /\ response.status = 200) =>
    response.body.signature_valid

\* C4: for an existing user with balance b and an existing event with price
\* p, the purchase fails with required = p, current = b, shortage = p - b
\* when p > b, and does not fail with InsufficientBalance when b >= p.
C4_InsufficientBalanceIffShort ==
  [][\A r \in Reqs, u \in DOMAIN users, e \in DOMAIN events :
       PurchaseEvent(r, u, e) =>
         LET b == users[u].token_balance
             p == events[e].price
         IN IF p > b
              THEN /\ response'.op = "purchaseEvent"
                   /\ response'.status = 400
                   /\ response'.body.message = "Insufficient tokens"
                   /\ response'.body.required = p
                   /\ response'.body.current = b
                   /\ response'.body.shortage = p - b
              ELSE response'.status # 400]_vars

\* the purchase of the event priced 50 by the user holding 10 was rejected
C4_Witness ==
  /\ response.op = "purchaseEvent"
  /\ response.status = 400
  /\ response.body.required = 50
  /\ response.body.current = 10
  /\ response.body.shortage = 40

\* C5: a step that answers NotFound or InsufficientBalance to an event
\* purchase, or UnknownPackage or NotFound to a token purchase, leaves the
\* four tables unchanged, attempts no charge and sends no notification.
C5_ValidationFailureChangesNothing ==
  [][(/\ response'.op \in {"purchaseEvent", "purchaseTokens"}
      /\ response'.body.message \in {"Event not found", "User not found",
                                     "Insufficient tokens", "Invalid package"})
       => UNCHANGED <<users, purchases, token_purchases, orders, payments,
                      emails>>]_vars

\* a token purchase for a user that does not exist was answered NotFound
\* after purchases had been made
C5_Witness ==
  /\ response.op = "purchaseTokens"
  /\ response.status = 404
  /\ response.body.message = "User not found"
  /\ purchases # {}

\* the README's package table: tokens + bonus, and the price in cents
README_Total ==
  [p \in {"100", "250", "500", "1000"} |->
     CASE p = "100" -> 100 [] p = "250" -> 300
       [] p = "500" -> 650 [] p = "1000" -> 1500]

README_Cents ==
  [p \in {"100", "250", "500", "1000"} |->
     CASE p = "100" -> 499 [] p = "250" -> 999
       [] p = "500" -> 1999 [] p = "1000" -> 3999]

C7_ChargeRejected ==
  [][\A r \in Reqs, result \in ChargeResults :
       (ChargeSettled(r, result) /\ ~result.ok) =>
         /\ response'.op = "purchaseTokens"
         /\ response'.user_id = req[r].user_id
         /\ IF result.errors
              THEN /\ response'.status = 400
                   /\ response'.body.code = "SQUARE_PAYMENT_ERROR"
                   /\ response'.body.details = result.details
              ELSE /\ response'.status = 500
                   /\ response'.body.code = "PAYMENT_ERROR"
         /\ users' = users
         /\ token_purchases' = token_purchases
         /\ orders' = orders]_vars

\* a charge was declined with the processor's detail after an earlier purchase
C7_Witness ==
  /\ response.op = "purchaseTokens"
  /\ response.body.message = "Payment failed"
  /\ response.body.code = "SQUARE_PAYMENT_ERROR"
  /\ response.body.details = <<"CARD_DECLINED">>
  /\ payments # <<>>
  /\ payments[Len(payments)].status = "FAILED"

\* C8: whenever a token purchase ends with a payment-failure response
\* (PaymentDeclined or PaymentProcessorUnavailable), that request has made no
\* ledger mutation: its charge did not complete, so it credited nothing, and
\* no token_purchases or orders row of it exists.
C8_PaymentFailureBeforeMutation ==
  [][\A r \in Reqs :
       (/\ Responds(r, "tokens")
        /\ response'.status # 200
        /\ response'.body.code \in {"SQUARE_PAYMENT_ERROR", "PAYMENT_ERROR"}) =>
         /\ users' = users
         /\ payments'[req[r].locals.payment].status # "COMPLETED"
         /\ ~ \E row \in token_purchases' \cup orders' :
                row.square_payment_id = PaymentIdOf(req[r].locals.payment)]_vars

\* C9: in a token purchase, a failure of the receipt notification after the
\* charge, the credit and the persistence is swallowed: the request still
\* returns its success result.
C9_TokenEmailFailureSwallowed ==
  [][\A r \in Reqs :
       TokenEmailSettled(r, FALSE) =>
         /\ response'.status = 200
         /\ response'.body.receipt_number = req[r].locals.receiptNumber]_vars

\* C10: in an event purchase, a failure of the receipt notification is not
\* reported to the caller and reverses nothing: the request returns success
\* with the credential, expiry, receipt number and signature of its stored
\* row, and balance and rows stay as written.
C10_EventEmailFailureSwallowed ==
  [][\A r \in Reqs :
       EventEmailSettled(r, FALSE) =>
         /\ response'.op = "purchaseEvent"
         /\ response'.status = 200
         /\ response'.body.success
         /\ UNCHANGED <<users, purchases, token_purchases, orders>>
         /\ \E row \in purchases', order \in orders' :
              /\ row.user_id = req[r].user_id
              /\ row.event_id = req[r].item
              /\ row.access_token = response'.body.access_token
              /\ row.expires_at = response'.body.expires_at
              /\ row.receipt_number = response'.body.receipt_number
              /\ row.digital_signature = response'.body.digital_signature
              /\ order.receipt_number = row.receipt_number
              /\ order.user_id = row.user_id]_vars

\* an event purchase returned success although its receipt email failed
C10_Witness ==
  /\ response.op = "purchaseEvent"
  /\ response.status = 200
  /\ ~response.body.emailSent
  /\ \E row \in purchases : row.receipt_number = response.body.receipt_number

\* C11: whenever an event-purchase request returns a failure, the step that
\* answers it leaves every balance as it was before the request and adds no
\* purchases row and no orders row: a failure is reached only before the
\* debit.
C11_EventFailureBeforeMutation ==
  [][(response'.op = "purchaseEvent" /\ response'.status # 200) =>
       /\ users' = users
       /\ purchases' = purchases
       /\ orders' = orders]_vars

\* C12: across the original token-purchase request and its retries, the
\* payment processor executes at most one charge.
C12_RetryChargesOnce ==
  Cardinality(Charges) <= 1

AlteredFacts(receiptNumber) ==
  {t \in tampered :
     /\ t.column # "digital_signature"
     /\ \E row \in token_purchases \cup purchases :
          /\ row.id = t.id
          /\ row.receipt_number = receiptNumber
          /\ (t.table = "token_purchases") = (row \in token_purchases)}

\* C14: after a direct edit of a stored field of a token_purchases or
\* purchases row, the lookup of the row's receipt number returns the receipt
\* view with signature_valid = false.
C14_TamperDetected ==
  [][\A n \in Receipts :
       (GetReceipt(n) /\ AlteredFacts(n) # {}) =>
         /\ response'.status = 200
         /\ ~response'.body.signature_valid]_vars

\* the rows a lookup of the receipt number reads whose stored signature a
\* direct edit has removed or replaced by a text that is no digest
AlteredSignature(receiptNumber) ==
  {t \in tampered :
     /\ t.column = "digital_signature"
     /\ \E row \in token_purchases \cup purchases :
          /\ row.id = t.id
          /\ row.receipt_number = receiptNumber
          /\ (t.table = "token_purchases") = (row \in token_purchases)}

\* C15: verify never throws: the lookup of a row whose stored signature is
\* missing, malformed or of another length than the recomputed one returns
\* the receipt view with signature_valid = false, not an internal fault.
C15_VerifyNeverThrows ==
  [][\A n \in Receipts :
       (GetReceipt(n) /\ AlteredSignature(n) # {}) =>
         /\ response'.status = 200
         /\ ~response'.body.signature_valid]_vars

\* C16: a receipt lookup leaves the users, purchases, token_purchases and
\* orders tables unchanged (the events table is never written), and right
\* after a lookup, before any other step, a second lookup of the same
\* receipt number would send the response the first one sent, signature_valid
\* included.
C16_LookupReadOnlyRepeatable ==
  /\ [][\A n \in Receipts \cup {"RCP-0"} :
          GetReceipt(n) =>
            UNCHANGED <<users, purchases, token_purchases, orders>>]_vars
  /\ [](response.op = "receipt" =>
          response = ReceiptResponse(response.item, ReceiptView(response.item)))

\* a lookup has returned signature_valid = true for a row after a direct edit
\* and after purchases
C16_Witness ==
  /\ response.op = "receipt"
  /\ response.status = 200
  /\ response.body.signature_valid
  /\ tampered # {}
  /\ orders # {}

\* the grants of (user, event) whose expiry is strictly later than instant t
GrantsLaterThan(u, e, t) ==
  {p \in purchases : p.user_id = u /\ p.event_id = e /\ Earlier(t, p.expires_at)}

\* the grants of (user, event) whose expiry falls in a later second than t
GrantsInLaterSecond(u, e, t) ==
  {p \in purchases : p.user_id = u /\ p.event_id = e /\ p.expires_at.s > t.s}

\* C17 as stated: the stream request fails with Forbidden if and only if no
\* grant of (user, event) has an expiry strictly later than the check time,
\* and in every other case returns the event's locator with the expiry of
\* such a grant.
C17_StreamForbiddenIffNoGrant ==
  [][\A u \in UserIds, e \in EventIds \cup ReqEventIds :
       GetStream(u, e) =>
         IF GrantsLaterThan(u, e, now) = {}
           THEN response'.status = 403
           ELSE /\ response'.status = 200
                /\ response'.body.stream_url = events[e].youtube_url
                /\ \E p \in GrantsLaterThan(u, e, now) :
                     response'.body.expires_at = p.expires_at]_vars

\* C17 as amended: the stream request fails with Forbidden if and only if no
\* grant of (user, event) has an expiry that, cut to whole seconds, is later
\* than the check time cut to whole seconds; when there is such a grant it
\* fails with NotFound if the event has no playback locator and otherwise
\* returns the locator with the expiry of such a grant.
C17_StreamForbiddenIffNoGrantInLaterSecond ==
  [][\A u \in UserIds, e \in EventIds \cup ReqEventIds :
       GetStream(u, e) =>
         IF GrantsInLaterSecond(u, e, now) = {}
           THEN response'.status = 403
         ELSE IF events[e].youtube_url = "null"
           THEN response'.status = 404
         ELSE /\ response'.status = 200
              /\ response'.body.stream_url = events[e].youtube_url
              /\ \E p \in GrantsInLaterSecond(u, e, now) :
                   response'.body.expires_at = p.expires_at]_vars

\* a stream request was answered Forbidden in the last second of a grant,
\* which the listing would still report active
C17_Witness ==
  /\ response.op = "stream"
  /\ response.status = 403
  /\ GrantsLaterThan(response.user_id, response.item, now) # {}

\* the instant a grant was issued at: the timestamp its handler signed
IssuedAt(p) == p.digital_signature.msg[8][2]

\* the end of the validity window of a grant issued at instant t
WindowEnd(t) == [s |-> t.s + 30 * 24 * 60 * 60, ms |-> t.ms]

\* C18: the listing of a user's grants holds every grant of the user and
\* reports a grant issued at T as active at every check time t < T + 30 days
\* and as expired at every t >= T + 30 days; the listing and the passing of
\* time change no stored field.
C18_GrantStatusDerived ==
  /\ [][\A u \in ReqUserIds :
          GetUserEvents(u) =>
            /\ {e.id : e \in response'.body.events} =
                 {p.id : p \in {q \in purchases : q.user_id = u}}
            /\ \A e \in response'.body.events :
                 \E p \in purchases :
                   /\ p.id = e.id
                   /\ e.status = IF Earlier(now, WindowEnd(IssuedAt(p)))
                                   THEN "active" ELSE "expired"
            /\ UNCHANGED <<users, purchases, token_purchases, orders>>]_vars
  /\ [][now' # now =>
          UNCHANGED <<users, purchases, token_purchases, orders>>]_vars

\* one listing reports a grant of the user expired and another one active
C18_Witness ==
  /\ response.op = "userEvents"
  /\ \E e \in response.body.events : e.status = "expired"
  /\ \E e \in response.body.events : e.status = "active"

\* C19: every token-purchase request whose package id is not one of 100,
\* 250, 500, 1000 is answered UnknownPackage, whether or not its user exists
\* (the package is resolved before the user is looked up), and no charge is
\* attempted.
C19_UnknownPackageFirst ==
  [][\A r \in Reqs, u \in ReqUserIds, p \in ReqPackageIds :
       (PurchaseTokens(r, u, p) /\ p \notin {"100", "250", "500", "1000"}) =>
         /\ response' = TokenResponse(u, p, InvalidPackage)
         /\ payments' = payments
         /\ req' = req]_vars

\* C20: a receipt lookup answers NotFound if and only if the receipt number
\* is in no token_purchases row and in no purchases row; a number that is in
\* a token_purchases row returns the token-purchase view of such a row, also
\* when a purchases row holds it too; a number that is in purchases rows only
\* returns the event-purchase view of such a row.
C20_LookupNamespaces ==
  [][\A n \in Receipts \cup {"RCP-0"} :
       GetReceipt(n) =>
         LET tokens == {tp \in token_purchases : tp.receipt_number = n}
             grants == {ep \in purchases : ep.receipt_number = n}
         IN /\ response'.op = "receipt"
            /\ (response'.status = 404) = (tokens = {} /\ grants = {})
            /\ tokens # {} =>
                 /\ response'.status = 200
                 /\ response'.body.type = "token_purchase"
                 /\ response'.body.purchase_id \in {tp.id : tp \in tokens}
            /\ (tokens = {} /\ grants # {}) =>
                 /\ response'.status = 200
                 /\ response'.body.type = "event_purchase"
                 /\ response'.body.purchase_id \in {ep.id : ep \in grants}]_vars

\* a lookup returned the token-purchase view of a receipt number that a
\* purchases row holds as well
C20_Witness ==
  /\ response.op = "receipt"
  /\ response.status = 200
  /\ response.body.type = "token_purchase"
  /\ \E ep \in purchases : ep.receipt_number = response.item

\* no handler is at an await
NoRequestInProgress == \A r \in Reqs : req[r].pc = "idle"

\* the orders row is the ledger entry of the purchases or token_purchases row
Mirrors(order, row) ==
  /\ order.user_id = row.user_id
  /\ order.receipt_number = row.receipt_number
  /\ order.digital_signature = row.digital_signature
  /\ order.status = "completed"

\* C21: in every state in which no purchase request is in progress, every
\* purchases row and every token_purchases row has exactly one orders row of
\* the same user with the same receipt number and signature and status
\* completed, and every orders row mirrors exactly one such row.
C21_OrderMirrorsPurchase ==
  NoRequestInProgress =>
    /\ \A row \in purchases \cup token_purchases :
         Cardinality({order \in orders : Mirrors(order, row)}) = 1
    /\ \A order \in orders :
         Cardinality({row \in purchases \cup token_purchases :
                        Mirrors(order, row)}) = 1

\* C22: a purchases row or a token_purchases row that exists is in the table
\* with the same values of all its fields after every step of every
\* operation, also a step taken after the row's expires_at has passed.
C22_RowsNeverChange ==
  [][/\ purchases \subseteq purchases'
     /\ token_purchases \subseteq token_purchases']_vars

\* a grant whose expiry has passed and a token purchase are in the tables,
\* and the seed script has just replaced the row of their user
C22_Witness ==
  /\ \E p \in purchases : ~Earlier(now, p.expires_at)
  /\ token_purchases # {}
  /\ orders # {}
  /\ response = NoResponse
  /\ users[TestUserId].token_balance = SeedBalance
  /\ NoRequestInProgress

\* C23: a step changes the token_balance of a users row only when it is the
\* debit of an event purchase or the credit of a token purchase of that
\* user; every other operation, the seed script among them, leaves the
\* balance of every users row as it is.
C23_BalanceChangedOnlyByLedger ==
  [][\A u \in DOMAIN users :
       \/ u \in DOMAIN users' /\ users'[u].token_balance = users[u].token_balance
       \/ \E r \in Reqs, e \in EventIds : PurchaseEvent(r, u, e)
       \/ \E r \in Reqs, result \in ChargeResults :
            ChargeSettled(r, result) /\ req[r].user_id = u]_vars

\* the rows a step inserts
Inserted(rows, rows2) == rows2 \ rows

\* C24: in both purchase flows a step that attempts a notification has, by
\* then, persisted the purchases or token_purchases row of that receipt and
\* its orders row; a step that persists such a row has debited or credited
\* the row's user; and a success response follows an attempt, made in an
\* earlier step, to notify the receipt it carries.  No notification is
\* attempted for a purchase whose rows are not persisted.
C24_StepOrder ==
  [][/\ emails' # emails =>
          /\ Len(emails') = Len(emails) + 1
          /\ \A i \in DOMAIN emails : emails'[i] = emails[i]
          /\ \E row \in Inserted(purchases, purchases')
                        \cup Inserted(token_purchases, token_purchases'),
                order \in Inserted(orders, orders') :
               /\ row.receipt_number = emails'[Len(emails')].receiptNumber
               /\ row.user_id = emails'[Len(emails')].to
               /\ Mirrors(order, row)
     /\ \A row \in Inserted(purchases, purchases') :
          users' = Debit(users, row.user_id, row.amount_paid)
     /\ \A row \in Inserted(token_purchases, token_purchases') :
          users' = Credit(users, row.user_id,
                          row.tokens_added + row.bonus_tokens)
     /\ \A order \in Inserted(orders, orders') :
          \E row \in purchases' \cup token_purchases' : Mirrors(order, row)
     /\ (/\ response'.op \in {"purchaseEvent", "purchaseTokens"}
         /\ response'.status = 200) =>
          /\ \E i \in DOMAIN emails :
               emails[i].receiptNumber = response'.body.receipt_number
          /\ \E row \in purchases \cup token_purchases :
               row.receipt_number = response'.body.receipt_number]_vars

\* a purchase was notified and a later one, whose INSERT INTO orders threw,
\* left its row without a notification
C24_Witness ==
  /\ Len(emails) = 1
  /\ Cardinality(purchases \cup token_purchases) = 2
  /\ Cardinality(orders) = 1
  /\ response.status = 500

\* C25: every purchase request that has persisted its rows and waits for
\* emails.send eventually returns its response, also in the behaviours in
\* which emails.send never settles.
C25_ResponseDespiteSilentSink ==
  \A r \in Reqs : (req[r].pc = "awaitEmail") ~> (req[r].pc = "idle")

\* the rows a step creates for a user
CreatedFor(B) ==
  {row \in Inserted(purchases, purchases')
           \cup Inserted(token_purchases, token_purchases')
           \cup Inserted(orders, orders') : row.user_id = B}

\* C26: a purchase request authenticated as user A changes the balance of no
\* other user B and creates no row owned by B, and a token purchase it starts
\* is carried on for A.
C26_ActsOnVerifiedPrincipal ==
  [][\A A \in UserIds, r \in Reqs, user_id \in ReqUserIds :
       /\ \A e \in ReqEventIds :
            PostPurchasesEvents(Bearer(A), r, user_id, e) =>
              \A B \in DOMAIN users \ {A} :
                users'[B] = users[B] /\ CreatedFor(B) = {}
       /\ \A p \in ReqPackageIds :
            (PostTokensPurchase(Bearer(A), r, user_id, p)
               /\ req'[r].pc = "awaitCharge") =>
              req'[r].user_id = A]_vars

\* C27: in every state no two distinct rows among the purchases and
\* token_purchases rows carry the same receipt number.
C27_ReceiptNumbersUnique ==
  \A a, b \in purchases \cup token_purchases :
    a.receipt_number = b.receipt_number => a = b

\* C28: while the device that was last given the stream of an event for a
\* user holds it, a request for the stream with the same user and event, as
\* a second device sends it, is refused.
C28_SecondDeviceRefused ==
  (response.op = "stream" /\ response.status = 200) =>
    StreamView(response.user_id, response.item).status # 200

\* the createPayment calls that settled with a payment
Completed == {i \in DOMAIN payments : payments[i].status = "COMPLETED"}

\* the charge of a token_purchases row: a settled payment with the row's
\* payment id, made for the row's user at the price of the row's package
ChargesOf(row) ==
  {i \in Completed : /\ payments[i].id = row.square_payment_id
                     /\ payments[i].buyer = row.user_id
                     /\ payments[i].amount = packages[row.package_id].price}

\* C29: in every state every token_purchases row stores the payment id of
\* exactly one createPayment call that settled with a payment, and no two
\* rows share a charge; and a step raises a balance only as the createPayment
\* call of that same request settles with a payment, by the tokens and bonus
\* of the request's package.
C29_CreditOnlyAfterCharge ==
  /\ [](\A row \in token_purchases : Cardinality(ChargesOf(row)) = 1)
  /\ [](\A a, b \in token_purchases : ChargesOf(a) \cap ChargesOf(b) # {} => a = b)
  /\ [][\A u \in DOMAIN users :
          users'[u].token_balance > users[u].token_balance =>
            \E r \in Reqs :
              /\ req[r].pc = "awaitCharge"
              /\ req[r].user_id = u
              /\ payments[req[r].locals.payment].status = "PENDING"
              /\ payments'[req[r].locals.payment].status = "COMPLETED"
              /\ \A i \in DOMAIN payments \ {req[r].locals.payment} :
                   payments'[i] = payments[i]
              /\ users'[u].token_balance =
                   users[u].token_balance + packages[req[r].item].tokens
                                          + packages[req[r].item].bonus]_vars

\* one charge was declined and left no row and no credit, another settled
\* with a payment and its row is stored
C29_Witness ==
  /\ \E i \in DOMAIN payments : payments[i].status = "FAILED"
  /\ \E row \in token_purchases :
       users[row.user_id].token_balance >= row.tokens_added + row.bonus_tokens
  /\ Cardinality(Completed) = 1

\* the sum of the second components of a set of pairs
RECURSIVE SumOf(_)
SumOf(pairs) ==
  IF pairs = {} THEN 0
  ELSE LET pair == CHOOSE x \in pairs : TRUE
       IN pair[2] + SumOf(pairs \ {pair})

\* the balance of user u less every credit and plus every debit the rows of
\* tps and eps record for u: the balance u had before them
BalanceBefore(us, eps, tps, u) ==
  us[u].token_balance
    - SumOf({<<row.id, row.tokens_added + row.bonus_tokens>> :
               row \in {tp \in tps : tp.user_id = u}})
    + SumOf({<<row.id, row.amount_paid>> :
               row \in {ep \in eps : ep.user_id = u}})

\* C30: however a token purchase, which reads the user before it awaits the
\* charge, and the event purchases of the same user interleave, every step
\* leaves the balance equal to the initial balance plus the tokens and bonus
\* of every token_purchases row of the user minus the price of every
\* purchases row of the user: no credit or debit is lost.
C30_NoLostUpdate ==
  [][\A u \in DOMAIN users :
       BalanceBefore(users', purchases', token_purchases', u)
         = BalanceBefore(users, purchases, token_purchases, u)]_vars

\* a token purchase read the user, an event purchase of the same user then
\* debited the balance, and the token purchase then credited it
C30_Witness ==
  /\ req[1].pc = "awaitEmail" /\ req[1].kind = "tokens"
  /\ req[2].pc = "awaitEmail" /\ req[2].kind = "event"
  /\ req[1].user_id = req[2].user_id
  /\ Len(emails) = 2
  /\ emails[1].receiptNumber = req[2].locals.receiptNumber
  /\ emails[2].receiptNumber = req[1].locals.receiptNumber
  /\ users[req[1].user_id].token_balance
       = 500 - events[req[2].item].price + req[1].locals.totalTokens

\* C31: in every state, each of which another request can observe (a handler
\* at the await of the charge or of the notification, or no request in
\* progress), the balance of every user is the user's initial balance plus
\* tokens_added + bonus_tokens of every token_purchases row of the user minus
\* amount_paid of every purchases row of the user.
C31_LedgerConservation ==
  \A u \in DOMAIN users :
    BalanceBefore(users, purchases, token_purchases, u) = InitialBalance(u)
====
